---------------------------- MODULE Spec2Model ----------------------------
(***************************************************************************)
(* Model of the Google-Takeout companion resolver                          *)
(* (getCompanionJsonPathForMediaFile) and of the metadata writer           *)
(* (updateExifMetadata).  File names are TLA+ strings; the string and path *)
(* primitives of the source (startsWith, endsWith, slice, toLowerCase,     *)
(* extname, basename, dirname, resolve and the regular expressions) are    *)
(* operators computed character by character.                              *)
(***************************************************************************)
EXTENDS Integers, Sequences, FiniteSets, TLC

VARIABLES
  mediaFilePath,                  \* argument of getCompanionJsonPathForMediaFile
  existing,                       \* paths for which existsSync answers true
  filesInDirectory,               \* what readdirSync(directoryPath) lists, in its order
  readdirThrows,                  \* readdirThrows[k]: the k-th readdirSync of a call throws
  pc,                             \* position inside the resolver
  call,                           \* number of the current invocation
  mediaFileExtension,             \* local: extname(mediaFilePath)
  mediaFileNameWithoutExtension,  \* local: the stem after the -edited strip
  imgIdx,                         \* local: index of the for-loop over imageExtensions
  checked,                        \* paths handed to existsSync by the current call, in order
  returned,                       \* return value of the current call (Null before it returns)
  site,                           \* which return statement produced it
  results,                        \* return values of the completed calls, oldest first
  wpc,                            \* position inside updateExifMetadata
  fileInfo,                       \* argument of updateExifMetadata
  timeTaken,                      \* argument of updateExifMetadata
  io,                             \* which of the writer's I/O operations fail
  metadataTags,                   \* tag set handed to exiftool.write
  errorDirFiles,                  \* file names copied into errorDir
  backupPresent                   \* {outputFilePath}_original is on disk

resolverVars == <<mediaFilePath, existing, filesInDirectory, readdirThrows, pc, call,
                  mediaFileExtension, mediaFileNameWithoutExtension, imgIdx,
                  checked, returned, site, results>>
writerVars == <<wpc, fileInfo, timeTaken, io, metadataTags, errorDirFiles, backupPresent>>
vars == <<mediaFilePath, existing, filesInDirectory, readdirThrows, pc, call,
          mediaFileExtension, mediaFileNameWithoutExtension, imgIdx,
          checked, returned, site, results,
          wpc, fileInfo, timeTaken, io, metadataTags, errorDirFiles, backupPresent>>

-----------------------------------------------------------------------------
(* Bounds *)

MaxDirEntries == 3

MaxCalls == 2

-----------------------------------------------------------------------------
(* String primitives *)

Null == "null"

NoLocal == "unset"

CharAt(s, i) == SubSeq(s, i, i)

StartsWith(s, p) == Len(p) <= Len(s) /\ SubSeq(s, 1, Len(p)) = p

EndsWith(s, p) == Len(p) <= Len(s) /\ SubSeq(s, Len(s) - Len(p) + 1, Len(s)) = p

SliceEnd(s, n) == IF n >= Len(s) THEN "" ELSE SubSeq(s, 1, Len(s) - n)

UpperToLower ==
  [c \in {"A","B","C","D","E","F","G","H","I","J","K","L","M",
          "N","O","P","Q","R","S","T","U","V","W","X","Y","Z"} |->
     CASE c = "A" -> "a" [] c = "B" -> "b" [] c = "C" -> "c" [] c = "D" -> "d"
       [] c = "E" -> "e" [] c = "F" -> "f" [] c = "G" -> "g" [] c = "H" -> "h"
       [] c = "I" -> "i" [] c = "J" -> "j" [] c = "K" -> "k" [] c = "L" -> "l"
       [] c = "M" -> "m" [] c = "N" -> "n" [] c = "O" -> "o" [] c = "P" -> "p"
       [] c = "Q" -> "q" [] c = "R" -> "r" [] c = "S" -> "s" [] c = "T" -> "t"
       [] c = "U" -> "u" [] c = "V" -> "v" [] c = "W" -> "w" [] c = "X" -> "x"
       [] c = "Y" -> "y" [] c = "Z" -> "z"]

RECURSIVE ToLowerCase(_)
ToLowerCase(s) ==
  IF s = "" THEN ""
  ELSE LET c == CharAt(s, 1)
       IN (IF c \in DOMAIN UpperToLower THEN UpperToLower[c] ELSE c)
            \o ToLowerCase(SubSeq(s, 2, Len(s)))

RECURSIVE LastIndexOf(_, _, _)
LastIndexOf(s, c, i) ==
  IF i < 1 THEN 0
  ELSE IF CharAt(s, i) = c THEN i ELSE LastIndexOf(s, c, i - 1)

RECURSIVE IndexOf(_, _, _)
IndexOf(s, c, i) ==
  IF i > Len(s) THEN 0
  ELSE IF CharAt(s, i) = c THEN i ELSE IndexOf(s, c, i + 1)

-----------------------------------------------------------------------------
(* Path primitives (posix) *)

Basename(path) == SubSeq(path, LastIndexOf(path, "/", Len(path)) + 1, Len(path))

Dirname(path) ==
  LET k == LastIndexOf(path, "/", Len(path))
  IN IF k = 0 THEN "." ELSE IF k = 1 THEN "/" ELSE SubSeq(path, 1, k - 1)

Extname(path) ==
  LET name == Basename(path)
      k == LastIndexOf(name, ".", Len(name))
  IN IF k <= 1 \/ name = ".." THEN "" ELSE SubSeq(name, k, Len(name))

BasenameWithoutExt(path, ext) ==
  LET name == Basename(path)
  IN IF ext # "" /\ name # ext /\ EndsWith(name, ext)
     THEN SliceEnd(name, Len(ext)) ELSE name

Resolve(dir, name) == IF dir = "/" THEN "/" \o name ELSE dir \o "/" \o name

-----------------------------------------------------------------------------
(* Regular expressions of the resolver *)

Digits == {"0","1","2","3","4","5","6","7","8","9"}

RECURSIVE SkipDigitsBack(_, _)
SkipDigitsBack(s, i) ==
  IF i >= 1 /\ CharAt(s, i) \in Digits THEN SkipDigitsBack(s, i - 1) ELSE i

\* index of the "(" of a trailing (<digits>), 0 when the string has none
CounterIndex(s) ==
  IF Len(s) >= 3 /\ CharAt(s, Len(s)) = ")"
  THEN LET j == SkipDigitsBack(s, Len(s) - 1)
       IN IF j >= 1 /\ j < Len(s) - 1 /\ CharAt(s, j) = "(" THEN j ELSE 0
  ELSE 0

\* /\(\d+\)$/.test(s)
mediaHasCounter(s) == CounterIndex(s) > 0

\* /\(\d+\)\.json$/.test(file)
hasCounterSuffix(file) ==
  EndsWith(file, ".json") /\ CounterIndex(SliceEnd(file, 5)) > 0

\* leftmost position at which /[-]edited$/i matches, 0 when it does not match
RECURSIVE EditedMatchAt(_, _)
EditedMatchAt(s, i) ==
  IF i + 6 > Len(s) THEN 0
  ELSE IF i + 6 = Len(s) /\ ToLowerCase(SubSeq(s, i, i + 6)) = "-edited" THEN i
  ELSE EditedMatchAt(s, i + 1)

\* strips every trailing -edited, as a loop or a repeated replace would
StripEditedAll(s) ==
  LET low == ToLowerCase(s)
      F[n \in 0..Len(s)] ==
        IF n >= 7 /\ SubSeq(low, n - 6, n) = "-edited" THEN F[n - 7] ELSE n
  IN SubSeq(s, 1, F[Len(s)])

\* s.replace(/[-]edited$/i, ''): the first match is replaced by ''
StripEdited(s) ==
  LET i == EditedMatchAt(s, 1)
  IN IF i = 0 THEN s ELSE SubSeq(s, 1, i - 1) \o SubSeq(s, i + 7, Len(s))

-----------------------------------------------------------------------------
(* Candidate names, lines 19-52 *)

Suffixes(base, ext) ==
  << base \o ".json",
     base \o ext \o ".json",
     base \o ext \o ".supplemental-metadata.json" >>

CounterNames(stem, ext) ==
  LET k == CounterIndex(stem)
      name == SubSeq(stem, 1, k - 1)
      counter == SubSeq(stem, k, Len(stem))
  IN IF k = 0 THEN << >>
     ELSE << name \o ext \o counter \o ".json",
             name \o ext \o ".supplemental-metadata" \o counter \o ".json" >>

TrailingCharNames(stem, ext) ==
  LET endsWithExtraDash == EndsWith(stem, "_n-")
      endsWithExtraNChar == EndsWith(stem, "_n")
      endsWithExtraUnderscore == EndsWith(stem, "_")
  IN IF endsWithExtraDash \/ endsWithExtraNChar \/ endsWithExtraUnderscore
     THEN Suffixes(SliceEnd(stem, 1), ext)
     ELSE << >>

potentialJsonFileNamesNoCounter(stem, ext) ==
  Suffixes(stem, ext) \o TrailingCharNames(stem, ext)

potentialJsonFileNames(stem, ext) ==
  Suffixes(stem, ext) \o CounterNames(stem, ext) \o TrailingCharNames(stem, ext)

-----------------------------------------------------------------------------
(* The existence loop: for (p of paths) if (existsSync(p)) return p *)

RECURSIVE FirstExisting(_, _)
FirstExisting(paths, i) ==
  IF i > Len(paths) THEN 0
  ELSE IF paths[i] \in existing THEN i ELSE FirstExisting(paths, i + 1)

RECURSIVE LastExisting(_, _)
LastExisting(paths, i) ==
  IF i < 1 THEN 0
  ELSE IF paths[i] \in existing THEN i ELSE LastExisting(paths, i - 1)

Nothing == [checks |-> << >>, hit |-> Null]

\* returns the first path without asking whether it exists
TryPathsUnchecked(paths) ==
  IF Len(paths) = 0 THEN Nothing ELSE [checks |-> << >>, hit |-> paths[1]]

\* keeps looping after a hit and returns the last existing path
TryPathsLast(paths) ==
  LET k == LastExisting(paths, Len(paths))
  IN [checks |-> paths, hit |-> IF k = 0 THEN Null ELSE paths[k]]

TryPaths(paths) ==
  LET k == FirstExisting(paths, 1)
  IN IF k = 0 THEN [checks |-> paths, hit |-> Null]
     ELSE [checks |-> SubSeq(paths, 1, k), hit |-> paths[k]]

\* sequential composition of two probes: the second runs only if the first missed
Then(a, b) ==
  IF a.hit # Null THEN a ELSE [checks |-> a.checks \o b.checks, hit |-> b.hit]

InDirectory(names) == [i \in 1..Len(names) |-> Resolve(Dirname(mediaFilePath), names[i])]

-----------------------------------------------------------------------------
(* The three directory scans, lines 66-127 *)

MatchesSupplemental(file) ==
  /\ StartsWith(file, mediaFileNameWithoutExtension)
  /\ EndsWith(file, ".supplemental-metadata.json")

MatchesJsonAnyCounter(file) ==
  /\ StartsWith(file, mediaFileNameWithoutExtension)
  /\ EndsWith(file, ".json")

MatchesJsonParity(file) ==
  /\ StartsWith(file, mediaFileNameWithoutExtension)
  /\ EndsWith(file, ".json")
  /\ hasCounterSuffix(file) = mediaHasCounter(mediaFileNameWithoutExtension)

MatchesTruncated(file) ==
  /\ EndsWith(file, ".json")
  /\ StartsWith(mediaFileNameWithoutExtension, SliceEnd(file, 5))

ScanMatches(k, file) ==
  CASE k = 1 -> MatchesSupplemental(file)
    [] k = 2 -> MatchesJsonParity(file)
    [] k = 3 -> MatchesTruncated(file)

\* the entries of the listing that the k-th scan's condition lets through, in order
RECURSIVE Filter(_, _, _)
Filter(files, k, i) ==
  IF i > Len(files) THEN << >>
  ELSE (IF ScanMatches(k, files[i]) THEN << files[i] >> ELSE << >>) \o Filter(files, k, i + 1)

ScanPc(k) == CASE k = 1 -> "scanSupplemental" [] k = 2 -> "scanJson" [] k = 3 -> "scanTruncated"

AfterScan(k) == CASE k = 1 -> "scanJson" [] k = 2 -> "scanTruncated" [] k = 3 -> "videoFallback"

\* no try/catch around the listing: the error leaves the function
UncaughtReaddirError(k) == "raised"

\* catch (error) { /* just continue */ }
CatchReaddirError(k) == AfterScan(k)

-----------------------------------------------------------------------------
(* Video-to-image fallback, lines 132-199 *)

videoExtensions == {".mp4", ".mov", ".avi", ".mkv", ".webm", ".flv", ".wmv", ".m4v"}

imageExtensions == << ".jpg", ".jpeg", ".png", ".gif", ".bmp", ".heic", ".webp" >>

IsVideo(ext) == ToLowerCase(ext) \in videoExtensions

\* Case 1, lines 138-167
SameCounterProbe(stem, imgExt) ==
  LET image == InDirectory(<< stem \o imgExt >>)
      k == CounterIndex(stem)
      jsonWithCounter == SubSeq(stem, 1, k - 1) \o imgExt \o ".supplemental-metadata"
                           \o SubSeq(stem, k, Len(stem)) \o ".json"
      companionJsonCandidates == << stem \o imgExt \o ".json",
                                    stem \o imgExt \o ".supplemental-metadata.json" >>
  IN IF image[1] \in existing
     THEN Then([checks |-> image, hit |-> Null],
               Then(IF k > 0 THEN TryPaths(InDirectory(<< jsonWithCounter >>)) ELSE Nothing,
                    TryPaths(InDirectory(companionJsonCandidates))))
     ELSE [checks |-> image, hit |-> Null]

\* Case 2, lines 171-197; /^(.+?)\(\d+\)$/ needs a non-empty name before the counter
BaseImageProbe(stem, imgExt) ==
  LET k == CounterIndex(stem)
      baseNameWithoutCounter == SubSeq(stem, 1, k - 1)
      image == InDirectory(<< baseNameWithoutCounter \o imgExt >>)
  IN IF k > 1
     THEN IF image[1] \in existing
          THEN Then([checks |-> image, hit |-> Null],
                    Then(TryPaths(InDirectory(
                           << baseNameWithoutCounter \o imgExt \o ".supplemental-metadata.json" >>)),
                         TryPaths(InDirectory(<< baseNameWithoutCounter \o imgExt \o ".json" >>))))
          ELSE [checks |-> image, hit |-> Null]
     ELSE Nothing

\* Case 1 without the supplemental-metadata candidate
ImageProbeJsonOnly(stem, imgExt) ==
  LET image == InDirectory(<< stem \o imgExt >>)
  IN Then(IF image[1] \in existing
          THEN Then([checks |-> image, hit |-> Null],
                    TryPaths(InDirectory(<< stem \o imgExt \o ".json" >>)))
          ELSE [checks |-> image, hit |-> Null],
          BaseImageProbe(stem, imgExt))

ImageProbe(stem, imgExt) == Then(SameCounterProbe(stem, imgExt), BaseImageProbe(stem, imgExt))

-----------------------------------------------------------------------------
(* Inputs: media files and, for each, the sibling names its directory may hold *)

directoryPath == "/takeout"

Siblings ==
  [ m \in {"foo.jpg", "foo-edited.jpg", "foo-edited-edited.jpg", "foo-EDITED.JPG",
           "foo(1).jpg", "SNOW.mp4", "IMG.MP4", "IMG(1).MP4", "(1).mov",
           "pic_n.jpg", "pic_.png", "pic_n-.jpg", "talk_high.mp4",
           "a(1).j.mp4", "a.(1)", "notes"} |->
    CASE m = "foo.jpg" ->
           {"foo.json", "foo.jpg.json", "foo.jpg.supplemental-metadata.json",
            "foo.png.supplemental-metadata.json", "foo.jpg(1).json", "fo.json"}
      [] m = "foo-edited.jpg" ->
           {"foo.json", "foo-edited.json", "foo.jpg.json", "foo-edited.jpg.json",
            "foo.jpg.supplemental-metadata.json", "foo.jpg"}
      [] m = "foo-edited-edited.jpg" ->
           {"foo.json", "foo-edited.json", "foo-edited-edited.json", "foo-edited.jpg.json",
            "foo.jpg.json", "foo-edited.jpg"}
      [] m = "foo-EDITED.JPG" ->
           {"foo.json", "foo-EDITED.json", "foo.JPG.json", "foo.jpg.json",
            "foo-EDITED.JPG.json", "foo.JPG.supplemental-metadata.json"}
      [] m = "foo(1).jpg" ->
           {"foo.jpg(1).json", "foo(1).jpg.json", "foo(1).json",
            "foo.jpg.supplemental-metadata(1).json",
            "foo(1).jpg.supplemental-metadata.json", "foo.json"}
      [] m = "SNOW.mp4" ->
           {"SNOW.mp4.supplemental-metadata(1).json", "SNOW.mp4(1).json", "SNOW.jpg",
            "SNOW.jpg.json", "SNOW_x.json", "SN.json"}
      [] m = "IMG.MP4" ->
           {"IMG.jpg", "IMG.jpg.supplemental-metadata.json",
            "IMG.heic.supplemental-metadata.json", "IMG.jpg.json", "IMG.png",
            "IMG.png.json"}
      [] m = "IMG(1).MP4" ->
           {"IMG(1).jpg", "IMG.jpg", "IMG.jpg.supplemental-metadata(1).json",
            "IMG(1).jpg.json", "IMG(1).jpg.supplemental-metadata.json",
            "IMG.jpg.supplemental-metadata.json", "IMG.jpg.json"}
      [] m = "(1).mov" ->
           {"(1).jpg", ".jpg", ".jpg.supplemental-metadata(1).json",
            ".jpg.supplemental-metadata.json", ".jpg.json", ".mov(1).json"}
      [] m = "pic_n.jpg" ->
           {"pic_.json", "pic_.jpg.json", "pic_.jpg.supplemental-metadata.json",
            "pic_n.json", "pic.json", "pic_n_wide.json"}
      [] m = "pic_.png" ->
           {"pic.json", "pic.png.json", "pic.png.supplemental-metadata.json",
            "pic_.png.json", "pic_(1).json", "pi.json"}
      [] m = "pic_n-.jpg" ->
           {"pic_n.json", "pic_n.jpg.json", "pic_n.jpg.supplemental-metadata.json",
            "pic_n-.json", "pic_.json", "pic_n-x.json"}
      [] m = "talk_high.mp4" ->
           {"talk.json", "talk_high_res.json", "ta.json", "talk_high.jpg",
            "talk_high.jpg.json", "talk_high(1).json"}
      [] m = "a(1).j.mp4" ->
           {"a(1).json", "a(1).j.json", "a(1).j(2).json", "a.json", "a(1).j.png",
            "a(1).j.png.json"}
      [] m = "a.(1)" ->
           {"a.(1).json", "a.json", "a.(1).supplemental-metadata.json", "a(2).json",
            "ab.json", "a.(1)(1).json"}
      [] m = "notes" ->
           {"notes.json", "notes.supplemental-metadata.json", "notes.txt.json",
            "no.json", "notes(3).json", "notes.txt"} ]

MediaFiles == DOMAIN Siblings

\* readdirSync may list the entries in any order
Listings(names) ==
  UNION { { f \in [1..n -> names] : \A i, j \in 1..n : i # j => f[i] # f[j] } :
            n \in 0..MaxDirEntries }

Range(f) == { f[i] : i \in DOMAIN f }

-----------------------------------------------------------------------------
(* getCompanionJsonPathForMediaFile *)

WriterIdle ==
  /\ wpc = "idle"
  /\ fileInfo = [outputFilePath |-> "", mediaFileName |-> "", jsonFileExists |-> FALSE,
                 jsonFileName |-> Null, jsonFilePath |-> Null]
  /\ timeTaken = ""
  /\ io = [supportsExif |-> FALSE, write |-> "ok", unlink |-> "ok",
           copyMedia |-> "ok", copyJson |-> "ok"]
  /\ metadataTags = [t \in {} |-> ""]
  /\ errorDirFiles = {}
  /\ backupPresent = FALSE

Init ==
  /\ \E m \in MediaFiles :
       /\ mediaFilePath = Resolve(directoryPath, m)
       /\ filesInDirectory \in Listings(Siblings[m])
  /\ existing = { Resolve(directoryPath, f) : f \in Range(filesInDirectory) }
  /\ readdirThrows \in [1..3 -> BOOLEAN]
  /\ pc = "entry"
  /\ call = 1
  /\ mediaFileExtension = NoLocal
  /\ mediaFileNameWithoutExtension = NoLocal
  /\ imgIdx = 1
  /\ checked = << >>
  /\ returned = Null
  /\ site = "none"
  /\ results = << >>
  /\ WriterIdle

\* a stem kept across invocations and normalised again
KeptStem ==
  IF mediaFileNameWithoutExtension = NoLocal
  THEN StripEdited(BasenameWithoutExt(mediaFilePath, Extname(mediaFilePath)))
  ELSE StripEdited(mediaFileNameWithoutExtension)

\* lines 7-13
NormalizedStem == StripEdited(BasenameWithoutExt(mediaFilePath, Extname(mediaFilePath)))

Return(path, where, probes) ==
  /\ returned' = path
  /\ site' = where
  /\ checked' = checked \o probes
  /\ pc' = "returned"

\* lines 6-13: the locals
Enter ==
  /\ pc = "entry"
  /\ mediaFileExtension' = Extname(mediaFilePath)
  /\ mediaFileNameWithoutExtension' = NormalizedStem
  /\ imgIdx' = 1
  /\ checked' = << >>
  /\ returned' = Null
  /\ site' = "none"
  /\ pc' = "direct"
  /\ UNCHANGED <<mediaFilePath, existing, filesInDirectory, readdirThrows, call, results>>
  /\ UNCHANGED writerVars

\* lines 19-61: build potentialJsonFileNames and probe them in order
Direct ==
  /\ pc = "direct"
  /\ LET r == TryPaths(InDirectory(
                potentialJsonFileNames(mediaFileNameWithoutExtension, mediaFileExtension)))
     IN IF r.hit # Null
        THEN Return(r.hit, "direct", r.checks)
        ELSE /\ checked' = checked \o r.checks
             /\ pc' = "scanSupplemental"
             /\ UNCHANGED <<returned, site>>
  /\ UNCHANGED <<mediaFilePath, existing, filesInDirectory, readdirThrows, call,
                 mediaFileExtension, mediaFileNameWithoutExtension, imgIdx, results>>
  /\ UNCHANGED writerVars

\* lines 66-79, 85-105, 111-127: one try { readdirSync; for ... } catch {}
Scan(k) ==
  /\ pc = ScanPc(k)
  /\ IF readdirThrows[k]
     THEN /\ pc' = CatchReaddirError(k)
          /\ UNCHANGED <<checked, returned, site>>
     ELSE LET r == TryPaths(InDirectory(Filter(filesInDirectory, k, 1)))
          IN IF r.hit # Null
             THEN Return(r.hit, ScanPc(k), r.checks)
             ELSE /\ checked' = checked \o r.checks
                  /\ pc' = AfterScan(k)
                  /\ UNCHANGED <<returned, site>>
  /\ UNCHANGED <<mediaFilePath, existing, filesInDirectory, readdirThrows, call,
                 mediaFileExtension, mediaFileNameWithoutExtension, imgIdx, results>>
  /\ UNCHANGED writerVars

ScanSupplemental == Scan(1)

ScanJson == Scan(2)

ScanTruncated == Scan(3)

\* lines 132-198: one iteration of the loop over imageExtensions
VideoFallback ==
  /\ pc = "videoFallback"
  /\ IsVideo(mediaFileExtension)
  /\ imgIdx <= Len(imageExtensions)
  /\ LET r == ImageProbe(mediaFileNameWithoutExtension, imageExtensions[imgIdx])
     IN IF r.hit # Null
        THEN Return(r.hit, "videoFallback", r.checks) /\ UNCHANGED imgIdx
        ELSE /\ checked' = checked \o r.checks
             /\ imgIdx' = imgIdx + 1
             /\ UNCHANGED <<pc, returned, site>>
  /\ UNCHANGED <<mediaFilePath, existing, filesInDirectory, readdirThrows, call,
                 mediaFileExtension, mediaFileNameWithoutExtension, results>>
  /\ UNCHANGED writerVars

\* line 203
ReturnNull ==
  /\ pc = "videoFallback"
  /\ ~IsVideo(mediaFileExtension) \/ imgIdx > Len(imageExtensions)
  /\ Return(Null, "notFound", << >>)
  /\ UNCHANGED <<mediaFilePath, existing, filesInDirectory, readdirThrows, call,
                 mediaFileExtension, mediaFileNameWithoutExtension, imgIdx, results>>
  /\ UNCHANGED writerVars

\* the caller invokes the resolver again on the same path, the directory untouched
CallAgain ==
  /\ pc = "returned"
  /\ call < MaxCalls
  /\ results' = Append(results, returned)
  /\ call' = call + 1
  /\ pc' = "entry"
  /\ UNCHANGED <<mediaFilePath, existing, filesInDirectory, readdirThrows,
                 mediaFileExtension, mediaFileNameWithoutExtension, imgIdx,
                 checked, returned, site>>
  /\ UNCHANGED writerVars

Next ==
  \/ Enter
  \/ Direct
  \/ ScanSupplemental
  \/ ScanJson
  \/ ScanTruncated
  \/ VideoFallback
  \/ ReturnNull
  \/ CallAgain

Spec == Init /\ [][Next]_vars

-----------------------------------------------------------------------------
(* Properties of the resolver *)

stem == mediaFileNameWithoutExtension

ext == mediaFileExtension

InDir(name) == Resolve(directoryPath, name)

Done == pc = "returned"

IsJsonPath(p) == EndsWith(p, ".json")

AllThrow == \A k \in 1..3 : readdirThrows[k]

NoneThrows == \A k \in 1..3 : ~readdirThrows[k]

\* C1: a non-null return value is a path of the media file's directory that an
\* existence check of this call found present; it exists when the call returns.
C1_ReturnedPathPassedExistenceCheck ==
  (Done /\ returned # Null) =>
     /\ returned \in existing
     /\ \E i \in 1..Len(checked) : checked[i] = returned
     /\ Dirname(returned) = Dirname(mediaFilePath)
     /\ Basename(returned) \in Range(filesInDirectory)

C1_Witness ==
  /\ Done
  /\ returned # Null
  /\ site = "direct"
  /\ Len(checked) >= 4
  /\ checked[1] \notin existing

\* The candidates of the claimed total order, from the stem, the extension, the
\* listing and (for the sibling-image gates of priority 6) the directory content.
DirectOrder ==
  << stem \o ".json", stem \o ext \o ".json", stem \o ext \o ".supplemental-metadata.json" >>
    \o (IF mediaHasCounter(stem)
        THEN LET k == CounterIndex(stem)
                 name == SubSeq(stem, 1, k - 1)
                 counter == SubSeq(stem, k, Len(stem))
             IN << name \o ext \o counter \o ".json",
                   name \o ext \o ".supplemental-metadata" \o counter \o ".json" >>
        ELSE << >>)

TrailingOrder ==
  IF EndsWith(stem, "_n-") \/ EndsWith(stem, "_n") \/ EndsWith(stem, "_")
  THEN LET base == SubSeq(stem, 1, Len(stem) - 1)
       IN << base \o ".json", base \o ext \o ".json",
             base \o ext \o ".supplemental-metadata.json" >>
  ELSE << >>

SupplementalOrder ==
  IF readdirThrows[1] THEN << >>
  ELSE SelectSeq(filesInDirectory,
         LAMBDA f : StartsWith(f, stem) /\ EndsWith(f, ".supplemental-metadata.json"))

JsonParityOrder ==
  IF readdirThrows[2] THEN << >>
  ELSE SelectSeq(filesInDirectory,
         LAMBDA f : /\ StartsWith(f, stem) /\ EndsWith(f, ".json")
                    /\ (hasCounterSuffix(f) <=> mediaHasCounter(stem)))

TruncationOrder ==
  IF readdirThrows[3] THEN << >>
  ELSE SelectSeq(filesInDirectory,
         LAMBDA f : EndsWith(f, ".json") /\ StartsWith(stem, SubSeq(f, 1, Len(f) - 5)))

FallbackOrderFor(imgExt) ==
  LET k == CounterIndex(stem)
      name == SubSeq(stem, 1, k - 1)
      counter == SubSeq(stem, k, Len(stem))
  IN (IF InDir(stem \o imgExt) \in existing
      THEN (IF k > 0
            THEN << name \o imgExt \o ".supplemental-metadata" \o counter \o ".json" >>
            ELSE << >>)
           \o << stem \o imgExt \o ".json", stem \o imgExt \o ".supplemental-metadata.json" >>
      ELSE << >>)
     \o
     (IF k > 1 /\ InDir(name \o imgExt) \in existing
      THEN << name \o imgExt \o ".supplemental-metadata.json", name \o imgExt \o ".json" >>
      ELSE << >>)

RECURSIVE FallbackOrderFrom(_)
FallbackOrderFrom(i) ==
  IF i > Len(imageExtensions) THEN << >>
  ELSE FallbackOrderFor(imageExtensions[i]) \o FallbackOrderFrom(i + 1)

FallbackOrder == IF IsVideo(ext) THEN FallbackOrderFrom(1) ELSE << >>

PriorityOrder ==
  LET names == DirectOrder \o TrailingOrder \o SupplementalOrder \o JsonParityOrder
                 \o TruncationOrder \o FallbackOrder
  IN [i \in 1..Len(names) |-> InDir(names[i])]

\* C2: the existence checks made on candidates are exactly the claimed total
\* order up to and including its first existing candidate, which is returned;
\* null is returned only after the whole order has been checked.
C2_FirstExistingInPriorityOrder ==
  Done =>
    LET order == PriorityOrder
        k == FirstExisting(order, 1)
        probes == SelectSeq(checked, IsJsonPath)
    IN IF k = 0
       THEN returned = Null /\ probes = order
       ELSE /\ returned = order[k]
            /\ probes = SubSeq(order, 1, k)
            /\ checked[Len(checked)] = returned

C2_Witness ==
  /\ Done
  /\ site = "scanTruncated"
  /\ NoneThrows
  /\ Len(filesInDirectory) = 3
  /\ Len(checked) >= 4
  /\ \E i \in 1..Len(PriorityOrder) :
       PriorityOrder[i] \in existing /\ PriorityOrder[i] # returned

\* C3: the stem is the base name with exactly one trailing -edited (any case)
\* removed, or the base name itself when it does not end so, and the first
\* candidate probed is that stem followed by .json.
C3_StripsExactlyOneEdited ==
  pc \notin {"entry", "idle"} =>
    LET base == BasenameWithoutExt(mediaFilePath, Extname(mediaFilePath))
        expected == IF EndsWith(ToLowerCase(base), "-edited")
                    THEN SubSeq(base, 1, Len(base) - 7) ELSE base
    IN /\ stem = expected
       /\ (base = "foo-edited-edited" => stem = "foo-edited")
       /\ (pc # "direct" => checked[1] = InDir(expected \o ".json"))

C3_Witness ==
  /\ Done
  /\ Basename(mediaFilePath) = "foo-edited-edited.jpg"
  /\ stem = "foo-edited"
  /\ returned = InDir("foo-edited.json")
  /\ InDir("foo.json") \in existing

rawBase == BasenameWithoutExt(mediaFilePath, Extname(mediaFilePath))

rawExt == Extname(mediaFilePath)

IsCounterMedia == CounterIndex(rawBase) > 0

Relocated ==
  LET k == CounterIndex(rawBase)
  IN InDir(SubSeq(rawBase, 1, k - 1) \o rawExt \o SubSeq(rawBase, k, Len(rawBase)) \o ".json")

\* C4 as stated: {name}{ext}(n).json present and {name}(n){ext}.json absent
\* give {name}{ext}(n).json.
C4_Original ==
  (/\ Done
   /\ IsCounterMedia
   /\ Relocated \in existing
   /\ InDir(rawBase \o rawExt \o ".json") \notin existing)
    => returned = Relocated

\* C4: {name}{ext}(n).json present and none of {name}(n).json,
\* {name}(n){ext}.json, {name}(n){ext}.supplemental-metadata.json present give
\* {name}{ext}(n).json.
C4_CounterRelocation ==
  (/\ Done
   /\ IsCounterMedia
   /\ Relocated \in existing
   /\ InDir(rawBase \o rawExt \o ".json") \notin existing
   /\ InDir(rawBase \o ".json") \notin existing
   /\ InDir(rawBase \o rawExt \o ".supplemental-metadata.json") \notin existing)
    => returned = Relocated

C4_Witness ==
  /\ Done
  /\ Basename(mediaFilePath) = "foo(1).jpg"
  /\ InDir("foo.jpg(1).json") \in existing
  /\ InDir("foo(1).jpg.json") \notin existing
  /\ returned = InDir("foo.jpg(1).json")
  /\ site = "direct"

CounterSuffixedAndPrefixed(path) ==
  /\ hasCounterSuffix(Basename(path))
  /\ StartsWith(Basename(path), stem)

SnowSidecar == InDir("SNOW.mp4.supplemental-metadata(1).json")

\* C5 as stated: a media file whose stem carries no trailing counter is never
\* given a counter-suffixed entry that starts with its stem.
C5_Original ==
  (Done /\ returned # Null /\ ~mediaHasCounter(stem))
    => ~CounterSuffixedAndPrefixed(returned)

\* C5: the prefix + .json scan returns an entry only if the entry's having
\* (<digits>) right before .json equals the stem's having a trailing (<digits>);
\* a stem without a counter is given a counter-suffixed entry starting with it
\* only as the direct name {stem}{ext}.json when the extension itself ends in
\* (<digits>), or by the reverse-truncation scan when the stem is the entry's
\* base name followed by a prefix of ".json"; for SNOW.mp4 the entry
\* SNOW.mp4.supplemental-metadata(1).json is never returned and, being alone
\* in the directory, lets the resolution run on to the video fallback and null.
C5_CounterParity ==
  /\ (Done /\ site = "scanJson") =>
        /\ StartsWith(Basename(returned), stem)
        /\ (hasCounterSuffix(Basename(returned)) <=> mediaHasCounter(stem))
  /\ (Done /\ returned # Null /\ ~mediaHasCounter(stem)
        /\ CounterSuffixedAndPrefixed(returned)) =>
        \/ /\ site = "direct"
           /\ returned = InDir(stem \o ext \o ".json")
           /\ mediaHasCounter(ext)
        \/ /\ site = "scanTruncated"
           /\ \E n \in 1..5 :
                stem = SubSeq(Basename(returned), 1, Len(Basename(returned)) - 5)
                         \o SubSeq(".json", 1, n)
  /\ (Done /\ Basename(mediaFilePath) = "SNOW.mp4") =>
        /\ returned # SnowSidecar
        /\ \A i \in 1..Len(checked) : checked[i] # SnowSidecar
        /\ existing = {SnowSidecar} =>
             /\ returned = Null
             /\ site = "notFound"
             /\ checked[Len(checked)] = InDir("SNOW.webp")

C5_Witness ==
  /\ Done
  /\ Basename(mediaFilePath) = "SNOW.mp4"
  /\ SnowSidecar \in existing
  /\ ~readdirThrows[2]
  /\ site = "scanTruncated"
  /\ returned = InDir("SN.json")
  /\ filesInDirectory[1] = "SNOW.mp4.supplemental-metadata(1).json"

JpgSidecar == InDir(stem \o ".jpg.supplemental-metadata.json")

NoVideoNamedSidecar ==
  /\ \A f \in Range(filesInDirectory) : ~StartsWith(f, stem \o ext)
  /\ \A i \in 1..Len(DirectOrder) : InDir(DirectOrder[i]) \notin existing
  /\ \A i \in 1..Len(TrailingOrder) : InDir(TrailingOrder[i]) \notin existing

VideoWithJpgSidecar ==
  /\ Done
  /\ IsVideo(ext)
  /\ NoVideoNamedSidecar
  /\ InDir(stem \o ".jpg") \in existing
  /\ JpgSidecar \in existing

\* C6 as stated: a video with no video-named sidecar whose sibling {stem}.jpg
\* and {stem}.jpg.supplemental-metadata.json are present is given the latter.
C6_Original == VideoWithJpgSidecar => returned = JpgSidecar

NoCompetingJson ==
  \A f \in Range(filesInDirectory) :
    (EndsWith(f, ".json") /\ InDir(f) # JpgSidecar) =>
       /\ ~StartsWith(f, stem)
       /\ ~StartsWith(stem, SubSeq(f, 1, Len(f) - 5))
       /\ mediaHasCounter(stem) =>
            f # SubSeq(stem, 1, CounterIndex(stem) - 1) \o ".jpg.supplemental-metadata"
                  \o SubSeq(stem, CounterIndex(stem), Len(stem)) \o ".json"

\* C6: the same, provided no other .json entry of the directory starts with the
\* stem, has a base name that is a prefix of the stem, or is the
\* counter-relocated {stemWithoutCounter}.jpg.supplemental-metadata(<n>).json.
C6_VideoUsesJpgSidecar ==
  (VideoWithJpgSidecar /\ NoCompetingJson) => returned = JpgSidecar

C6_Witness ==
  /\ Done
  /\ Basename(mediaFilePath) = "IMG.MP4"
  /\ AllThrow
  /\ site = "videoFallback"
  /\ returned = InDir("IMG.jpg.supplemental-metadata.json")
  /\ checked[Len(checked) - 1] = InDir("IMG.jpg.json")

\* C7: a listing that fails adds no candidate and hands control to the next
\* strategy; the resolver never raises: a call ends with a path or with null.
C7_ListingFailureIsAbsorbed ==
  /\ [](pc # "raised")
  /\ [](Done => (returned = Null \/ returned \in existing))
  /\ [][\A k \in 1..3 :
          (pc = ScanPc(k) /\ readdirThrows[k]) =>
             /\ pc' = AfterScan(k)
             /\ checked' = checked
             /\ returned' = returned]_vars

C7_Witness ==
  /\ Done
  /\ AllThrow
  /\ site = "videoFallback"
  /\ returned # Null
  /\ \E f \in Range(filesInDirectory) :
       StartsWith(f, stem) /\ EndsWith(f, ".json") /\ InDir(f) # returned

\* C8: every later call on the unchanged directory returns what the first did.
C8_Idempotent ==
  Done => \A i \in 1..Len(results) : results[i] = returned

C8_Witness ==
  /\ Done
  /\ call = 2
  /\ Len(results) = 1
  /\ returned # Null
  /\ site = "scanJson"
  /\ Len(filesInDirectory) >= 2
  /\ Basename(mediaFilePath) = "foo-edited-edited.jpg"

-----------------------------------------------------------------------------
(* updateExifMetadata *)

outputDir == "/out"

errorDir == "/error"

OutputFiles ==
  {"clip.mp4", "clip.MP4", "clip.mov", "clip.MOV", "clip.avi", "clip.mkv", "clip.webm",
   "clip.flv", "clip.wmv", "clip.M4V", "pic.jpg", "pic.HEIC", "pic.png", "notes"}

TimesTaken == {"2021-03-04T05:06:07.000Z", "2021-03-04T05:06:07Z", "Invalid Date"}

\* new Date(t) of an ISO-8601 UTC instant; anything else is an Invalid Date
IsValidDate(t) == Len(t) \in {20, 24} /\ CharAt(t, 11) = "T" /\ CharAt(t, Len(t)) = "Z"

\* dateObj.toISOString(): always with milliseconds
ToISOString(t) == IF Len(t) = 20 THEN SubSeq(t, 1, 19) \o ".000Z" ELSE t

\* s.replace(c, r) with a string pattern: the first occurrence only
ReplaceFirst(s, c, r) ==
  LET k == IndexOf(s, c, 1)
  IN IF k = 0 THEN s ELSE SubSeq(s, 1, k - 1) \o r \o SubSeq(s, k + 1, Len(s))

utcFormattedDate(t) == ReplaceFirst(ReplaceFirst(ToISOString(t), "T", " "), "Z", "+00:00")

\* the extension compared as written, without toLowerCase()
extensionAsWritten(path) == Extname(path)

\* line 16
extension(path) == ToLowerCase(Extname(path))

writerVideoExtensions == {".mp4", ".mov", ".avi"}

ImageTags == {"DateTimeOriginal"}

VideoTags == {"DateTimeOriginal", "CreateDate", "MediaCreateDate"}

\* lines 29-38
SelectTags(path, date) ==
  IF extension(path) \in writerVideoExtensions
  THEN [t \in VideoTags |-> date]
  ELSE [t \in ImageTags |-> date]

ResolverIdle ==
  /\ mediaFilePath = ""
  /\ existing = {}
  /\ filesInDirectory = << >>
  /\ readdirThrows = [k \in 1..3 |-> FALSE]
  /\ pc = "idle"
  /\ call = 0
  /\ mediaFileExtension = NoLocal
  /\ mediaFileNameWithoutExtension = NoLocal
  /\ imgIdx = 1
  /\ checked = << >>
  /\ returned = Null
  /\ site = "none"
  /\ results = << >>

InitWriter ==
  /\ ResolverIdle
  /\ wpc = "entry"
  /\ \E f \in OutputFiles, json \in {"none", "missing", "present"} :
       fileInfo = [outputFilePath |-> Resolve(outputDir, f),
                   mediaFileName |-> f,
                   jsonFileExists |-> json = "present",
                   jsonFileName |-> IF json = "none" THEN Null ELSE f \o ".json",
                   jsonFilePath |-> IF json = "none" THEN Null
                                    ELSE Resolve("/takeout", f \o ".json")]
  /\ timeTaken \in TimesTaken
  /\ io \in [supportsExif : BOOLEAN, write : {"ok", "fail"}, unlink : {"ok", "fail"},
             copyMedia : {"ok", "fail"}, copyJson : {"ok", "fail"}]
  /\ metadataTags = [t \in {} |-> ""]
  /\ errorDirFiles = {}
  /\ backupPresent = FALSE

\* lines 11-13
WEnter ==
  /\ wpc = "entry"
  /\ wpc' = IF io.supportsExif THEN "format" ELSE "resolved"
  /\ UNCHANGED <<fileInfo, timeTaken, io, metadataTags, errorDirFiles, backupPresent>>
  /\ UNCHANGED resolverVars

\* lines 16-38: toISOString throws a RangeError on an Invalid Date
WFormat ==
  /\ wpc = "format"
  /\ IF IsValidDate(timeTaken)
     THEN /\ metadataTags' = SelectTags(fileInfo.outputFilePath, utcFormattedDate(timeTaken))
          /\ wpc' = "write"
     ELSE /\ wpc' = "catch"
          /\ UNCHANGED metadataTags
  /\ UNCHANGED <<fileInfo, timeTaken, io, errorDirFiles, backupPresent>>
  /\ UNCHANGED resolverVars

\* line 40: exiftool keeps the old file as {outputFilePath}_original
WWrite ==
  /\ wpc = "write"
  /\ IF io.write = "ok"
     THEN wpc' = "unlink" /\ backupPresent' = TRUE
     ELSE wpc' = "catch" /\ UNCHANGED backupPresent
  /\ UNCHANGED <<fileInfo, timeTaken, io, metadataTags, errorDirFiles>>
  /\ UNCHANGED resolverVars

\* line 42
WUnlink ==
  /\ wpc = "unlink"
  /\ IF io.unlink = "ok"
     THEN wpc' = "resolved" /\ backupPresent' = FALSE
     ELSE wpc' = "catch" /\ UNCHANGED backupPresent
  /\ UNCHANGED <<fileInfo, timeTaken, io, metadataTags, errorDirFiles>>
  /\ UNCHANGED resolverVars

HasJson ==
  fileInfo.jsonFileExists /\ fileInfo.jsonFileName # Null /\ fileInfo.jsonFilePath # Null

\* line 45: inside the catch block, a rejected copyFile rejects the function
WCopyMedia ==
  /\ wpc = "catch"
  /\ IF io.copyMedia = "ok"
     THEN /\ errorDirFiles' = errorDirFiles \cup {fileInfo.mediaFileName}
          /\ wpc' = IF HasJson THEN "copyJson" ELSE "resolved"
     ELSE /\ wpc' = "rejected"
          /\ UNCHANGED errorDirFiles
  /\ UNCHANGED <<fileInfo, timeTaken, io, metadataTags, backupPresent>>
  /\ UNCHANGED resolverVars

\* lines 46-48
WCopyJson ==
  /\ wpc = "copyJson"
  /\ IF io.copyJson = "ok"
     THEN /\ errorDirFiles' = errorDirFiles \cup {fileInfo.jsonFileName}
          /\ wpc' = "resolved"
     ELSE /\ wpc' = "rejected"
          /\ UNCHANGED errorDirFiles
  /\ UNCHANGED <<fileInfo, timeTaken, io, metadataTags, backupPresent>>
  /\ UNCHANGED resolverVars

NextWriter ==
  \/ WEnter
  \/ WFormat
  \/ WWrite
  \/ WUnlink
  \/ WCopyMedia
  \/ WCopyJson

SpecWriter == InitWriter /\ [][NextWriter]_vars

-----------------------------------------------------------------------------
(* Properties of the writer *)

Settled == wpc \in {"resolved", "rejected"}

ApplyFailed ==
  /\ io.supportsExif
  /\ ~IsValidDate(timeTaken) \/ io.write = "fail" \/ io.unlink = "fail"

\* C9: when applying the timestamp fails, the media file (and the companion
\* JSON, if resolved and existing) ends up in the error directory under its own
\* name, and updateExifMetadata never rejects, whichever operation fails.
C9_FailureIsQuarantinedNotRaised ==
  Settled =>
    /\ wpc = "resolved"
    /\ ApplyFailed =>
         /\ fileInfo.mediaFileName \in errorDirFiles
         /\ HasJson => fileInfo.jsonFileName \in errorDirFiles

TagsSelected == DOMAIN metadataTags # {}

\* C10 as stated: the resolver's video extensions are exactly the extensions
\* that get the video tag set from the writer.
C10_Original ==
  TagsSelected =>
    (IsVideo(Extname(fileInfo.outputFilePath)) <=> DOMAIN metadataTags = VideoTags)

\* C10: the writer gives the video tag set exactly to .mp4, .mov and .avi (in
\* any letter case), all of which the resolver recognizes as video; .mkv,
\* .webm, .flv, .wmv and .m4v are video for the resolver only and get the image
\* tag set (DateTimeOriginal alone) from the writer.
C10_WriterVideoTypesAreResolverVideoTypes ==
  TagsSelected =>
    LET e == ToLowerCase(Extname(fileInfo.outputFilePath))
    IN /\ DOMAIN metadataTags \in {VideoTags, ImageTags}
       /\ (DOMAIN metadataTags = VideoTags) <=> (e \in {".mp4", ".mov", ".avi"})
       /\ (DOMAIN metadataTags = VideoTags) => IsVideo(Extname(fileInfo.outputFilePath))
       /\ (e \in {".mkv", ".webm", ".flv", ".wmv", ".m4v"}) =>
            /\ IsVideo(Extname(fileInfo.outputFilePath))
            /\ DOMAIN metadataTags = ImageTags

C10_Witness ==
  /\ wpc = "resolved"
  /\ fileInfo.mediaFileName = "clip.MOV"
  /\ DOMAIN metadataTags = VideoTags
  /\ metadataTags["CreateDate"] = "2021-03-04 05:06:07.000+00:00"
  /\ errorDirFiles = {}

=============================================================================
